---- MODULE Spec2Model ----
(***************************************************************************)
(* Model of the directory-tree printer of src/main.py: the filter         *)
(* (should_ignore), the directory listing (safe_scandir), the visited-set *)
(* bookkeeping (mark_seen), the recursive walk and the root validation of *)
(* tree().  Strings are sequences of Unicode code points, so that         *)
(* lower(), startswith(), fnmatch and the concatenations that build the   *)
(* output lines are computed as Python computes them.                     *)
(***************************************************************************)
EXTENDS Integers, Sequences, FiniteSets, TLC

VARIABLES
    kind,           \* filesystem: node -> "dir" | "file" | "link" | "none"
    target,         \* filesystem: link node -> the directory it points to (0 otherwise)
    root,           \* tree(): the variable root (argument, then root.resolve())
    flt,            \* tree(): the Filters argument
    max_depth,      \* tree(): the max_depth argument (None or an integer)
    follow_symlinks,\* tree(): the follow_symlinks argument
    lines,          \* tree(): the list lines
    seen_dirs,      \* tree(): the set seen_dirs of (st_dev, st_ino) keys
    seen_realpaths, \* tree(): the set seen_realpaths of resolved path strings
    stack,          \* the active invocations of walk(), innermost last
    call,           \* the arguments of a walk() call that has not yet started
    pc,             \* "start" | "call" | "loop" | "done" | "raised"
    err,            \* the exception tree() raised, "none" while there is none
    events,         \* history: what each element of lines is (RenderEvent)
    calls,          \* history: one record per walk() invocation that listed a directory
    faults          \* number of I/O failures injected so far

vars == <<kind, target, root, flt, max_depth, follow_symlinks, lines, seen_dirs,
          seen_realpaths, stack, call, pc, err, events, calls, faults>>

-----------------------------------------------------------------------------
(* Bounds of the model *)

NumNodes == 7       \* nodes of the filesystem universe, node 1 is the root directory
DepthChoices == 2   \* max_depth is None or in 0..DepthChoices
MaxFaults == 1      \* I/O failures (scandir, is_dir, stat) injected per run
MaxStack == 6       \* nesting of walk() the model follows

None == <<>>       \* max_depth is None, or <<N>> for the integer N

Nodes == 1..NumNodes

\* Shape of the filesystem universe: the directory each node lives in.
ParentTable == <<0, 1, 1, 1, 2, 2, 5, 5, 3>>
Parent(n) == ParentTable[n]

-----------------------------------------------------------------------------
(* Strings: sequences of code points *)

Str_Dot   == <<46>>                     \* "."
Str_Slash == <<47>>                     \* "/"
Str_Tee   == <<9500, 9472, 9472, 32>>   \* "├── "
Str_Corner== <<9492, 9472, 9472, 32>>   \* "└── "
Str_Bar   == <<9474, 32, 32, 32>>       \* "│   "
Str_Blank == <<32, 32, 32, 32>>         \* "    "
Str_Cycle == <<8617, 65038, 32, 40, 99, 121, 99, 108, 101, 41>>  \* "↩︎ (cycle)"

\* str.lower() on one code point (ASCII letters are all the model's names use)
LowerChar(c) == IF c >= 65 /\ c <= 90 THEN c + 32 ELSE c

Lower(s) == [i \in 1..Len(s) |-> LowerChar(s[i])]

\* Python's < on str: lexicographic by code point
RECURSIVE StrLess(_, _)
StrLess(a, b) ==
    IF b = <<>> THEN FALSE
    ELSE IF a = <<>> THEN TRUE
    ELSE IF a[1] # b[1] THEN a[1] < b[1]
    ELSE StrLess(Tail(a), Tail(b))

\* Names of the nodes: "r", "B", "a", ".c", "D", "cc", "e", "E", "f"
NameTable == <<<<114>>, <<66>>, <<97>>, <<46, 99>>, <<68>>, <<99, 99>>, <<101>>, <<69>>, <<102>>>>
Name(n) == NameTable[n]

\* Paths the caller may hand to tree(): "/r" (the directory), "/l" (a symbolic
\* link to it), "/f" (a regular file), "/x" (nothing there)
Path_r == <<47, 114>>
Path_l == <<47, 108>>
Path_f == <<47, 102>>
Path_x == <<47, 120>>
RootInputs == {Path_r, Path_l, Path_f, Path_x}

-----------------------------------------------------------------------------
(* The filesystem the walk reads *)

\* Path.resolve(): the canonical path; "/l" is a symbolic link to "/r"
Resolve(path) == IF path = Path_l THEN Path_r ELSE path

\* Path.exists() and Path.is_dir() on a caller-supplied (resolved) path
PathExists(path) == path \in {Path_r, Path_f}
RootIsDir(path) == path = Path_r

\* The node a path entry denotes once symbolic links are followed
Real(n) == IF kind[n] = "link" THEN target[n] ELSE n

\* Path.is_dir(): follows symbolic links
PathIsDir(n) == kind[Real(n)] = "dir"

\* Faulty variant: is_dir() called without the follow_symlinks argument
EntryIsDir_AlwaysFollows(n, follow) == kind[Real(n)] = "dir"

\* DirEntry.is_dir(follow_symlinks=follow)
EntryIsDir(n, follow) == IF follow THEN kind[Real(n)] = "dir" ELSE kind[n] = "dir"

\* The entries os.scandir() finds in a directory
Children(d) == {n \in Nodes : n # 1 /\ Parent(n) = d /\ kind[n] # "none"}

\* The canonical absolute path of a node
RECURSIVE CanonPath(_)
CanonPath(n) == IF n = 1 THEN Path_r ELSE CanonPath(Parent(n)) \o Str_Slash \o Name(n)

\* str(p.resolve()) of the entry p
RealPath(n) == CanonPath(Real(n))

\* (st.st_dev, st.st_ino) of p.stat(), which follows symbolic links
StatKey(n) == <<1, Real(n)>>

-----------------------------------------------------------------------------
(* Filter: is_hidden, matches_any_glob, should_ignore *)

is_hidden(n) == Len(Name(n)) >= 1 /\ SubSeq(Name(n), 1, 1) = Str_Dot

\* fnmatch.fnmatch on POSIX (case-sensitive), for patterns of literals, * and ?
RECURSIVE fnmatch(_, _)
fnmatch(name, pat) ==
    IF pat = <<>> THEN name = <<>>
    ELSE IF pat[1] = 42 THEN
        fnmatch(name, Tail(pat)) \/ (name # <<>> /\ fnmatch(Tail(name), pat))
    ELSE IF pat[1] = 63 THEN name # <<>> /\ fnmatch(Tail(name), Tail(pat))
    ELSE name # <<>> /\ name[1] = pat[1] /\ fnmatch(Tail(name), Tail(pat))

matches_any_glob(name, globs) == \E g \in globs : fnmatch(name, g)

should_ignore(n, f) ==
    \/ ~f.show_hidden /\ is_hidden(n)
    \/ Name(n) \in f.ignore_names
    \/ matches_any_glob(Name(n), f.ignore_globs)
    \/ f.pattern # <<>> /\ ~fnmatch(Name(n), f.pattern)
    \/ f.dirs_only /\ ~PathIsDir(n)

-----------------------------------------------------------------------------
(* Sorting and filtering of one directory's entries *)

\* Faulty variant: the key without .lower()
SortKeyLess_CaseSensitive(a, b) ==
    IF a.is_dir # b.is_dir THEN a.is_dir
    ELSE StrLess(Name(a.p), Name(b.p))

\* key=lambda x: (not x[1], x[0].name.lower()), compared as Python compares tuples
SortKeyLess(a, b) ==
    IF a.is_dir # b.is_dir THEN a.is_dir
    ELSE StrLess(Lower(Name(a.p)), Lower(Name(b.p)))

\* list.sort orders by key and is stable: the place of an entry in the result is
\* one more than the number of entries that have a smaller key, or an equal key
\* and an earlier place in the input
SortRank(s, i) ==
    1 + Cardinality({j \in 1..Len(s) :
                        \/ SortKeyLess(s[j], s[i])
                        \/ (~SortKeyLess(s[i], s[j]) /\ j < i)})

SortEntries(s) == [k \in 1..Len(s) |-> s[CHOOSE i \in 1..Len(s) : SortRank(s, i) = k]]

\* [(p, is_dir) for (p, is_dir) in entries if not should_ignore(p, flt)]
FilterEntries(s, f) == SelectSeq(s, LAMBDA e : ~should_ignore(e.p, f))

-----------------------------------------------------------------------------
(* mark_seen(p); statOk says whether p.stat() succeeded.  os.stat_result      *)
(* always carries st_dev and st_ino, so the key is never (-1, -1).           *)

\* Faulty variant: mark_seen never reports a directory as seen
mark_seen_result_Never(n, statOk) == FALSE

mark_seen_result(n, statOk) ==
    IF statOk THEN StatKey(n) \in seen_dirs ELSE RealPath(n) \in seen_realpaths

mark_seen_dirs(n, statOk) ==
    IF statOk THEN seen_dirs \cup {StatKey(n)} ELSE seen_dirs

mark_seen_realpaths(n, statOk) ==
    IF statOk THEN seen_realpaths ELSE seen_realpaths \cup {RealPath(n)}

\* The outcomes of p.stat() the fault budget still allows
StatOutcomes == IF faults < MaxFaults THEN BOOLEAN ELSE {TRUE}

-----------------------------------------------------------------------------
(* Rendering of one line *)

Branch(last) == IF last THEN Str_Corner ELSE Str_Tee

\* Faulty variant: the two continuation segments exchanged
Extension_Swapped(last) == IF last THEN Str_Bar ELSE Str_Blank

Extension(last) == IF last THEN Str_Blank ELSE Str_Bar

\* prefix + branch + p.name + ("/" if is_dir else "")
EntryLine(prefix, e, last) ==
    prefix \o Branch(last) \o Name(e.p) \o (IF e.is_dir THEN Str_Slash ELSE <<>>)

\* prefix + ("    " if last else "│   ") + "↩︎ (cycle)"
CycleLine(prefix, last) == prefix \o Extension(last) \o Str_Cycle

-----------------------------------------------------------------------------
(* tree(): root validation and start of the walk *)

\* Faulty variant: the is_dir() check of the root left out
RootError_NoDirCheck(r) == IF ~PathExists(r) THEN "FileNotFoundError" ELSE "none"

RootError(r) ==
    IF ~PathExists(r) THEN "FileNotFoundError"
    ELSE IF ~RootIsDir(r) THEN "NotADirectoryError"
    ELSE "none"

TreeRaise ==
    /\ pc = "start"
    /\ RootError(Resolve(root)) # "none"
    /\ root' = Resolve(root)
    /\ err' = RootError(Resolve(root))
    /\ pc' = "raised"
    /\ UNCHANGED <<kind, target, flt, max_depth, follow_symlinks, lines, seen_dirs,
                   seen_realpaths, stack, call, events, calls, faults>>

TreeBegin ==
    /\ pc = "start"
    /\ RootError(Resolve(root)) = "none"
    /\ root' = Resolve(root)
    /\ lines' = Append(lines, Resolve(root) \o Str_Slash)
    /\ events' = Append(events, [kind |-> "root", p |-> 1, depth |-> 0, is_dir |-> TRUE,
                                 call |-> 0, parent |-> 0])
    /\ IF follow_symlinks
       THEN \E statOk \in StatOutcomes :
              /\ seen_dirs' = mark_seen_dirs(1, statOk)
              /\ seen_realpaths' = mark_seen_realpaths(1, statOk)
              /\ faults' = IF statOk THEN faults ELSE faults + 1
       ELSE UNCHANGED <<seen_dirs, seen_realpaths, faults>>
    /\ call' = [p |-> 1, prefix |-> <<>>, depth |-> 1, parent |-> 0]
    /\ pc' = "call"
    /\ UNCHANGED <<kind, target, flt, max_depth, follow_symlinks, stack, err, calls>>

TreeReturn ==
    /\ pc = "loop"
    /\ stack = <<>>
    /\ pc' = "done"
    /\ UNCHANGED <<kind, target, root, flt, max_depth, follow_symlinks, lines, seen_dirs,
                   seen_realpaths, stack, call, err, events, calls, faults>>

-----------------------------------------------------------------------------
(* walk(dir_path, prefix, depth) *)

\* if max_depth is not None and depth > max_depth: return
DepthExceeded(depth) == max_depth # None /\ depth > max_depth[1]

WalkDepthReturn ==
    /\ pc = "call"
    /\ DepthExceeded(call.depth)
    /\ pc' = "loop"
    /\ UNCHANGED <<kind, target, root, flt, max_depth, follow_symlinks, lines, seen_dirs,
                   seen_realpaths, stack, call, err, events, calls, faults>>

\* The orders in which os.scandir() may yield the entries of a directory
ScanOrders(S) ==
    {s \in [1..Cardinality(S) -> S] : \A i, j \in 1..Cardinality(S) : i # j => s[i] # s[j]}

\* Lines 93-100: the (p, is_dir) pairs of the entries read; is_dir is False for
\* the entries in bad, whose e.is_dir() raised OSError
ReadEntries(listed, bad) ==
    [i \in 1..Len(listed) |->
        [p |-> listed[i],
         is_dir |-> IF listed[i] \in bad THEN FALSE
                    ELSE EntryIsDir(listed[i], follow_symlinks)]]

\* What one listing can read: safe_scandir yields the first cut entries of some
\* scan order, all of them when the listing completes (outcome "ok") and
\* otherwise those read before the exception that safe_scandir swallows; is_dir
\* raises for the entries in bad.  nf counts the failures involved.
Listings(d) ==
    {[listed |-> SubSeq(order, 1, cut), bad |-> bad,
      nf |-> (IF outcome = "ok" THEN 0 ELSE 1) + Cardinality(bad)] :
        <<order, outcome, cut, bad>> \in
            {x \in ScanOrders(Children(d))
                   \X {"ok", "PermissionError", "FileNotFoundError"}
                   \X (0..Cardinality(Children(d)))
                   \X (SUBSET Children(d)) :
                /\ x[2] = "ok" => x[3] = Len(x[1])
                /\ x[4] \subseteq {x[1][i] : i \in 1..x[3]}
                /\ faults + (IF x[2] = "ok" THEN 0 ELSE 1) + Cardinality(x[4]) <= MaxFaults}}

\* Lines 93-103: list, sort and filter the directory, then enter the for loop
WalkList ==
    /\ pc = "call"
    /\ ~DepthExceeded(call.depth)
    /\ Len(stack) < MaxStack
    /\ \E l \in Listings(Real(call.p)) :
          LET scanned == SortEntries(ReadEntries(l.listed, l.bad))
          IN /\ faults' = faults + l.nf
             /\ stack' = Append(stack, [dir |-> Real(call.p), prefix |-> call.prefix,
                                        depth |-> call.depth,
                                        entries |-> FilterEntries(scanned, flt),
                                        idx |-> 0, id |-> Len(calls) + 1])
             /\ calls' = Append(calls, [dir |-> Real(call.p), via |-> call.p,
                                        parent |-> call.parent, depth |-> call.depth,
                                        scanned |-> scanned])
    /\ pc' = "loop"
    /\ UNCHANGED <<kind, target, root, flt, max_depth, follow_symlinks, lines, seen_dirs,
                   seen_realpaths, call, err, events>>

\* os.scandir() or its iteration raises an OSError that is neither PermissionError
\* nor FileNotFoundError: safe_scandir does not catch it and neither does walk
WalkListRaise ==
    /\ pc = "call"
    /\ ~DepthExceeded(call.depth)
    /\ faults < MaxFaults
    /\ faults' = faults + 1
    /\ err' = "OSError"
    /\ pc' = "raised"
    /\ UNCHANGED <<kind, target, root, flt, max_depth, follow_symlinks, lines, seen_dirs,
                   seen_realpaths, stack, call, events, calls>>

\* The frame on top of the stack with its loop index advanced
Advance == [stack EXCEPT ![Len(stack)].idx = @ + 1]

Top == stack[Len(stack)]
Cur == Top.entries[Top.idx + 1]
IsLast == Top.idx + 1 = Len(Top.entries)

EntryEvent ==
    [kind |-> "entry", p |-> Cur.p, depth |-> Top.depth, is_dir |-> Cur.is_dir,
     call |-> Top.id, parent |-> calls[Top.id].parent]

\* Lines 105-108 for an entry that is not a directory
WalkEmitPlain ==
    /\ pc = "loop"
    /\ stack # <<>>
    /\ Top.idx < Len(Top.entries)
    /\ ~Cur.is_dir
    /\ lines' = Append(lines, EntryLine(Top.prefix, Cur, IsLast))
    /\ events' = Append(events, EntryEvent)
    /\ stack' = Advance
    /\ UNCHANGED <<kind, target, root, flt, max_depth, follow_symlinks, seen_dirs,
                   seen_realpaths, call, pc, err, calls, faults>>

\* Lines 105-113 for a directory mark_seen reports as seen: the cycle marker
WalkEmitCycle ==
    /\ pc = "loop"
    /\ stack # <<>>
    /\ Top.idx < Len(Top.entries)
    /\ Cur.is_dir
    /\ follow_symlinks
    /\ \E statOk \in StatOutcomes :
         /\ mark_seen_result(Cur.p, statOk)
         /\ faults' = IF statOk THEN faults ELSE faults + 1
    /\ lines' = lines \o <<EntryLine(Top.prefix, Cur, IsLast), CycleLine(Top.prefix, IsLast)>>
    /\ events' = events \o
         <<EntryEvent,
           [kind |-> "cycle", p |-> Cur.p, depth |-> Top.depth + 1, is_dir |-> FALSE,
            call |-> 0, parent |-> Len(events) + 1]>>
    /\ stack' = Advance
    /\ UNCHANGED <<kind, target, root, flt, max_depth, follow_symlinks, seen_dirs,
                   seen_realpaths, call, pc, err, calls>>

\* Lines 105-115 for a directory that is walked: walk(p, prefix + extension, depth + 1)
WalkEmitRecurse ==
    /\ pc = "loop"
    /\ stack # <<>>
    /\ Top.idx < Len(Top.entries)
    /\ Cur.is_dir
    /\ IF follow_symlinks
       THEN \E statOk \in StatOutcomes :
              /\ ~mark_seen_result(Cur.p, statOk)
              /\ seen_dirs' = mark_seen_dirs(Cur.p, statOk)
              /\ seen_realpaths' = mark_seen_realpaths(Cur.p, statOk)
              /\ faults' = IF statOk THEN faults ELSE faults + 1
       ELSE UNCHANGED <<seen_dirs, seen_realpaths, faults>>
    /\ lines' = Append(lines, EntryLine(Top.prefix, Cur, IsLast))
    /\ events' = Append(events, EntryEvent)
    /\ stack' = Advance
    /\ call' = [p |-> Cur.p, prefix |-> Top.prefix \o Extension(IsLast),
                depth |-> Top.depth + 1, parent |-> Len(events) + 1]
    /\ pc' = "call"
    /\ UNCHANGED <<kind, target, root, flt, max_depth, follow_symlinks, err, calls>>

\* The for loop of walk is exhausted: return to the caller
WalkReturn ==
    /\ pc = "loop"
    /\ stack # <<>>
    /\ Top.idx = Len(Top.entries)
    /\ stack' = SubSeq(stack, 1, Len(stack) - 1)
    /\ UNCHANGED <<kind, target, root, flt, max_depth, follow_symlinks, lines, seen_dirs,
                   seen_realpaths, call, pc, err, events, calls, faults>>

-----------------------------------------------------------------------------
(* Inputs *)

\* The directories above a node, the root included
RECURSIVE Ancestors(_)
Ancestors(n) == IF n = 1 THEN {} ELSE {Parent(n)} \cup Ancestors(Parent(n))

\* What each node of the universe may be, when the directory it lives in exists
KindChoices ==
    <<{"dir"}, {"dir"}, {"file", "link"}, {"file"}, {"dir", "file"}, {"file", "link"},
      {"file", "link"}, {"file"}, {"file"}>>

\* Filesystems: every node but the root lives in a directory.  A symbolic link
\* points to a directory: one of the directories above it, or directory 2, which
\* for a link outside it is a directory that is not above the link.  (A link to a
\* file or a dangling link is, to this code, indistinguishable from a file: it
\* never asks is_symlink.)
KindMaps ==
    {k \in [Nodes -> {"dir", "file", "link", "none"}] :
        /\ k[1] = "dir"
        /\ \A n \in Nodes \ {1} :
             IF k[Parent(n)] = "dir" THEN k[n] \in KindChoices[n] ELSE k[n] = "none"}

LinkTargets(k, n) == {d \in Ancestors(n) \cup {2} : d # n /\ k[d] = "dir"}

TargetMaps(k) ==
    LET L == {n \in Nodes : k[n] = "link"}
    IN {[n \in Nodes |-> IF n \in L THEN t[n] ELSE 0] :
          t \in {u \in [L -> Nodes] : \A n \in L : u[n] \in LinkTargets(k, n)}}

\* Filters: the default; --dirs-only; and
\* --hide-dot --ignore a --ignore-glob "e*" --pattern "?"
FilterConfigs ==
    {[show_hidden |-> TRUE,  dirs_only |-> FALSE, pattern |-> <<>>,
      ignore_names |-> {}, ignore_globs |-> {}],
     [show_hidden |-> TRUE,  dirs_only |-> TRUE,  pattern |-> <<>>,
      ignore_names |-> {}, ignore_globs |-> {}],
     [show_hidden |-> FALSE, dirs_only |-> FALSE, pattern |-> <<63>>,
      ignore_names |-> {<<97>>}, ignore_globs |-> {<<101, 42>>}]}

Init ==
    /\ kind \in KindMaps
    /\ target \in TargetMaps(kind)
    /\ root \in RootInputs
    /\ flt \in FilterConfigs
    /\ max_depth \in {None} \cup {<<d>> : d \in 0..DepthChoices}
    /\ follow_symlinks \in BOOLEAN
    /\ lines = <<>>
    /\ seen_dirs = {}
    /\ seen_realpaths = {}
    /\ stack = <<>>
    /\ call = [p |-> 1, prefix |-> <<>>, depth |-> 1, parent |-> 0]
    /\ pc = "start"
    /\ err = "none"
    /\ events = <<>>
    /\ calls = <<>>
    /\ faults = 0

Next ==
    \/ TreeRaise
    \/ TreeBegin
    \/ WalkDepthReturn
    \/ WalkList
    \/ WalkListRaise
    \/ WalkEmitPlain
    \/ WalkEmitCycle
    \/ WalkEmitRecurse
    \/ WalkReturn
    \/ TreeReturn

Spec == Init /\ [][Next]_vars

\* The walk is one synchronous thread of control: a step that can be taken is
\* taken.  Termination is checked for every filesystem, root, depth limit and
\* value of follow_symlinks, with the default filter.
FairInit == Init /\ flt.show_hidden /\ ~flt.dirs_only

FairSpec == FairInit /\ [][Next]_vars /\ WF_vars(Next)

-----------------------------------------------------------------------------
(* Vocabulary of the properties *)

Terminated == pc \in {"done", "raised"}

EntryIdx == {i \in 1..Len(events) : events[i].kind = "entry"}
CycleIdx == {i \in 1..Len(events) : events[i].kind = "cycle"}

\* Two emitted entries are children of the same directory listing
Siblings(i, j) == i \in EntryIdx /\ j \in EntryIdx /\ events[i].call = events[j].call

\* No entry of the same listing is emitted after entry i
LastEmitted(i) == ~\E j \in EntryIdx : j > i /\ events[j].call = events[i].call

\* The directories of the chain of walk() invocations down to invocation c
RECURSIVE ChainDirs(_)
ChainDirs(c) ==
    {calls[c].dir} \cup
    (IF calls[c].parent = 0 THEN {} ELSE ChainDirs(events[calls[c].parent].call))

\* The four-character segment the entry a contributes to the lines beneath it
Segment(a) == IF LastEmitted(a) THEN Str_Blank ELSE Str_Bar

\* The indentation of a line directly beneath the entry a (0: beneath the root)
RECURSIVE Indent(_)
Indent(a) == IF a = 0 THEN <<>> ELSE Indent(events[a].parent) \o Segment(a)

\* Position of the entry for node n in a list of entries
Pos(s, n) == CHOOSE k \in 1..Len(s) : s[k].p = n

-----------------------------------------------------------------------------
C2_CycleMarkerAtAncestorLink ==
    follow_symlinks =>
        \A i \in EntryIdx :
            ( /\ events[i].is_dir
              /\ kind[events[i].p] = "link"
              /\ target[events[i].p] \in ChainDirs(events[i].call) )
            => /\ i < Len(events)
               /\ events[i + 1].kind = "cycle"
               /\ events[i + 1].parent = i
               /\ \A c \in 1..Len(calls) : calls[c].parent # i

\* C3: with max_depth = N >= 1 every line but the root line is at depth 1..N:
\* beneath an entry at depth N there is no child line and no cycle marker.
C3_NothingBeneathMaxDepth ==
    (max_depth # None /\ max_depth[1] >= 1) =>
        \A i \in 1..Len(events) :
            events[i].kind # "root" =>
                events[i].depth >= 1 /\ events[i].depth <= max_depth[1]

\* C4: a failure to list a directory other than the root never aborts the walk:
\* tree() does not raise because of it.
C4_ListingFailureNeverAborts ==
    ~(pc = "raised" /\ err = "OSError" /\ call.p # 1)

\* C5: root validation is fatal and comes first: a root that does not exist
\* raises FileNotFoundError, one that is not a directory NotADirectoryError, each
\* with no line, no listing and an empty visited set; and a normal return has the
\* canonical root path plus separator as its first line.
C5_RootValidation ==
    /\ (pc # "start" /\ ~PathExists(root)) =>
          /\ pc = "raised" /\ err = "FileNotFoundError"
          /\ lines = <<>> /\ calls = <<>> /\ seen_dirs = {} /\ seen_realpaths = {}
    /\ (pc # "start" /\ PathExists(root) /\ ~RootIsDir(root)) =>
          /\ pc = "raised" /\ err = "NotADirectoryError"
          /\ lines = <<>> /\ calls = <<>> /\ seen_dirs = {} /\ seen_realpaths = {}
    /\ pc = "done" => Len(lines) >= 1 /\ lines[1] = Path_r \o Str_Slash

C5_Witness == pc = "raised" /\ err = "NotADirectoryError" /\ root = Path_f

\* C6: among the children emitted for one directory, entries flagged as
\* directories come before the others, each group is in ascending
\* case-insensitive name order, and the emitted entries keep the relative order
\* they had in the sorted listing before filtering.
C6_Ordering ==
    \A i, j \in EntryIdx :
        (i < j /\ Siblings(i, j)) =>
            /\ events[j].is_dir => events[i].is_dir
            /\ (events[i].is_dir = events[j].is_dir) =>
                  ~StrLess(Lower(Name(events[j].p)), Lower(Name(events[i].p)))
            /\ Pos(calls[events[i].call].scanned, events[i].p)
                  < Pos(calls[events[j].call].scanned, events[j].p)

C6_Witness ==
    /\ pc = "done"
    /\ \E i, j \in EntryIdx :
          /\ i < j /\ Siblings(i, j)
          /\ events[i].is_dir = events[j].is_dir
          /\ StrLess(Name(events[j].p), Name(events[i].p))
    /\ \E i, j \in EntryIdx :
          /\ i < j /\ Siblings(i, j)
          /\ events[i].is_dir /\ ~events[j].is_dir
          /\ StrLess(Lower(Name(events[j].p)), Lower(Name(events[i].p)))
    /\ \E c \in 1..Len(calls) :
          /\ Cardinality({i \in EntryIdx : events[i].call = c}) >= 2
          /\ Cardinality({i \in EntryIdx : events[i].call = c}) < Len(calls[c].scanned)

\* C7: with dirs_only every emitted entry is one the walker classifies as a
\* directory, for both values of follow_symlinks.
C7_DirsOnlyEmitsOnlyDirs ==
    flt.dirs_only => \A i \in EntryIdx : events[i].is_dir

\* C8: without follow_symlinks the walk emits no cycle marker, leaves the
\* visited set empty and never lists the children of a symbolic link; a symbolic
\* link is emitted without trailing separator, among the non-directories.
C8_NoFollow ==
    ~follow_symlinks =>
        /\ CycleIdx = {}
        /\ seen_dirs = {} /\ seen_realpaths = {}
        /\ \A c \in 1..Len(calls) : kind[calls[c].via] # "link"
        /\ pc = "call" => kind[call.p] # "link"
        /\ \A i \in EntryIdx :
              kind[events[i].p] = "link" =>
                 /\ ~events[i].is_dir
                 /\ lines[i][Len(lines[i])] # 47
                 /\ \A j \in EntryIdx : (j > i /\ Siblings(i, j)) => ~events[j].is_dir

C8_Witness ==
    /\ pc = "done"
    /\ ~follow_symlinks
    /\ \E i \in EntryIdx : kind[events[i].p] = "link"

\* C9: with follow_symlinks each directory has its children listed at most once
\* per walk, whatever p.stat() does.
C9_EnumeratedAtMostOnce ==
    follow_symlinks =>
        \A c, d \in 1..Len(calls) : calls[c].dir = calls[d].dir => c = d

\* C10: in the returned lines, the last child emitted for a directory carries
\* the corner glyph and every other child the tee glyph; the prefix of an entry
\* at depth D is D-1 four-character segments, one per entry above it, blank for
\* a last sibling and bar otherwise; a cycle marker has the prefix of a child of
\* the entry it marks.
C10_Glyphs ==
    pc = "done" =>
        /\ Len(events) = Len(lines)
        /\ \A i \in EntryIdx :
              /\ lines[i] = Indent(events[i].parent)
                            \o (IF LastEmitted(i) THEN Str_Corner ELSE Str_Tee)
                            \o Name(events[i].p)
                            \o (IF events[i].is_dir THEN Str_Slash ELSE <<>>)
              /\ Len(Indent(events[i].parent)) = 4 * (events[i].depth - 1)
        /\ \A i \in CycleIdx :
              lines[i] = Indent(events[i].parent) \o Str_Cycle

C10_Witness ==
    /\ pc = "done"
    /\ \E i \in EntryIdx :
          /\ events[i].depth = 3
          /\ Segment(events[i].parent) # Segment(events[events[i].parent].parent)
    /\ CycleIdx # {}

====
